---- MODULE Spec2Model ----
(***************************************************************************)
(* State-machine model of qemu_app.py: the persisted configuration, the    *)
(* setup dialog's save callback, the launcher (command synthesis, spawn,   *)
(* best-effort window placement) and the process exit status.              *)
(***************************************************************************)
EXTENDS Integers, Sequences, FiniteSets, TLC

VARIABLES
    configFile,      \* CONFIG_FILE: <<>> when absent, else <<[key |-> raw text]>>
    setupComplete,   \* SETUP_COMPLETE_FILE.is_file()
    argvConfig,      \* '--config' in sys.argv
    pc,              \* position of the process
    launchedFrom,    \* caller of run_launcher: "none", "main" or "on_save"
    net_mode_combo,  \* selection shown by the network-mode combobox ("" = none)
    config,          \* argument of run_launcher: <<>> for None, else <<dict>>
    qemu_command,    \* the argument list built by run_launcher
    audioRun,        \* outcome of the "-audiodev help" run ("none" before it)
    sdl_supported,   \* result of check_sdl_support in run_launcher
    proc,            \* "none", "running" (poll() is None) or "ended"
    popenCalls,      \* number of subprocess.Popen calls
    moveCalls,       \* number of move_qemu_to_screen calls
    placement,       \* what move_qemu_to_screen logged: "none", "moved" or "failed"
    launchErrors,    \* number of "Launch Error" dialogs shown
    lastError,       \* reason shown by the last failed save ("" = none)
    failedSaves,     \* save callbacks that returned without saving
    exitCode         \* process exit status, -1 while running

vars == <<configFile, setupComplete, argvConfig, pc, launchedFrom, net_mode_combo,
          config, qemu_command, audioRun, sdl_supported, proc, popenCalls, moveCalls,
          placement, launchErrors, lastError, failedSaves, exitCode>>

\* Cap on the save callbacks that fail in one run of the dialog.
MaxFailedSaves == 2

None == <<>>
Some(x) == <<x>>

(***************************************************************************)
(* The host: files, directories and the home directory.                    *)
(***************************************************************************)
ExistingFiles == {"/bin/qemu", "/vm/disk.vmdk", "/fw/code.fd"}
ExistingDirs == {"/Users/me/share", "/Users/me/Documents"}

\* os.path.exists
PathExists(p) == p \in ExistingFiles \cup ExistingDirs

\* os.path.expanduser, on the paths of this model: only "~/share" starts with "~"
ExpandUser(p) == IF p = "~/share" THEN "/Users/me/share" ELSE p

\* str(Path.home() / "Documents")
HomeDocuments == "/Users/me/Documents"

(***************************************************************************)
(* configparser: values are written as text and read back stripped.        *)
(***************************************************************************)
StrKeys == {"arch", "qemu_executable", "disk_path", "firmware_path",
            "shared_dir_path", "mount_tag", "network_mode", "bridge_name"}
BoolKeys == {"enable_webcam", "enable_guest_agent", "enable_microphone"}
Keys == StrKeys \cup BoolKeys

\* str(v) of a Python bool
PyStr(b) == IF b THEN "True" ELSE "False"

\* the whitespace-only value of this model reads back as the empty string
Strip(s) == IF s = " " THEN "" ELSE s

\* ConfigParser.getboolean on the texts save_config writes
GetBoolean(s) == s = "True"

\* config.get('VM', key, fallback=...)
ConfigGet(vm, key, fallback) ==
    IF key \in DOMAIN vm THEN Strip(vm[key]) ELSE fallback

\* config.getboolean('VM', key, fallback=False)
ConfigGetBoolean(vm, key) ==
    IF key \in DOMAIN vm THEN GetBoolean(Strip(vm[key])) ELSE FALSE

load_config(file) ==
    IF file = None THEN None
    ELSE LET vm == file[1] IN
         Some([arch               |-> ConfigGet(vm, "arch", "aarch64"),
               qemu_executable    |-> ConfigGet(vm, "qemu_executable", ""),
               disk_path          |-> ConfigGet(vm, "disk_path", ""),
               firmware_path      |-> ConfigGet(vm, "firmware_path", ""),
               shared_dir_path    |-> ConfigGet(vm, "shared_dir_path", HomeDocuments),
               mount_tag          |-> ConfigGet(vm, "mount_tag", "host_share"),
               enable_webcam      |-> ConfigGetBoolean(vm, "enable_webcam"),
               network_mode       |-> ConfigGet(vm, "network_mode", "user"),
               bridge_name        |-> ConfigGet(vm, "bridge_name", "bridge100"),
               enable_guest_agent |-> ConfigGetBoolean(vm, "enable_guest_agent"),
               enable_microphone  |-> ConfigGetBoolean(vm, "enable_microphone")])

\* the text save_config(values) leaves in CONFIG_FILE
save_config(values) ==
    Some([k \in Keys |-> IF k \in BoolKeys THEN PyStr(values[k]) ELSE values[k]])

(***************************************************************************)
(* Capability probes and window placement.  Each takes the outcome of the  *)
(* external call it makes.                                                 *)
(***************************************************************************)
\* subprocess.run([path, "--version"], timeout=3)
VersionRuns == {"exit0", "nonzero", "timeout"}

validate_qemu_executable(executable_path, run) ==
    IF executable_path = "" \/ ~PathExists(executable_path)
    THEN [ok |-> FALSE, msg |-> "Executable file not found"]
    ELSE IF run = "exit0" THEN [ok |-> TRUE, msg |-> ""]
    ELSE IF run = "nonzero" THEN [ok |-> FALSE, msg |-> "QEMU exited with an error"]
    ELSE [ok |-> FALSE, msg |-> "An unexpected validation error occurred: " \o run]

\* subprocess.run([qemu, "-audiodev", "help"], check=True, timeout=5)
AudioRuns(qemu_executable) ==
    IF qemu_executable \in ExistingFiles
    THEN {"lists_sdl", "lists_no_sdl", "nonzero", "timeout"}
    ELSE {"missing"}

\* a probe that takes a failed run for an answer
check_sdl_support_Mut(run) == run # "lists_no_sdl"

check_sdl_support(run) == run = "lists_sdl"

\* AppKit.NSScreen.screens()
ScreenQueries == {"raises", "one", "two"}

get_screen_count(query) == IF query = "two" THEN 2 ELSE 1

\* the osascript call of move_qemu_to_screen
MoveRuns == {"moved", "window_not_found", "automation_error"}

\* a placement whose failures escape to run_launcher
move_qemu_to_screen_Mut(query, run) == run # "moved"

\* TRUE iff move_qemu_to_screen lets an exception reach its caller
move_qemu_to_screen(query, run) == FALSE

\* subprocess.Popen(qemu_command)
PopenRuns(qemu_executable) ==
    IF qemu_executable \in ExistingFiles THEN {"started", "raises"} ELSE {"raises"}

(***************************************************************************)
(* run_launcher: the command line.                                         *)
(***************************************************************************)
BaseArgs(cfg) ==
    <<cfg.qemu_executable, "-M", "virt", "-accel", "hvf", "-cpu", "host",
      "-smp", "8", "-m", "24G",
      "-drive", "if=pflash,format=raw,readonly=on,file=" \o ExpandUser(cfg.firmware_path),
      "-device", "virtio-blk-pci,drive=disk0",
      "-drive", "id=disk0,if=none,format=vmdk,file=" \o ExpandUser(cfg.disk_path),
      "-display", "cocoa,show-cursor=on,full-screen=on", "-device", "virtio-gpu-pci",
      "-device", "virtio-keyboard-pci", "-device", "virtio-tablet-pci">>

WebcamArgs(cfg) ==
    IF cfg.enable_webcam
    THEN <<"-device", "nec-usb-xhci,id=usb", "-device", "usb-camera,id=mycam,bus=usb.0">>
    ELSE <<>>

SharedFolderArgs(cfg) ==
    IF cfg.shared_dir_path # ""
    THEN <<"-fsdev", "local,id=fsdev0,path=" \o ExpandUser(cfg.shared_dir_path)
                       \o ",security_model=mapped-xattr",
           "-device", "virtio-9p-pci,fsdev=fsdev0,mount_tag=" \o cfg.mount_tag>>
    ELSE <<>>

GuestAgentArgs(cfg) ==
    IF cfg.enable_guest_agent
    THEN <<"-device", "virtio-serial", "-chardev", "spicevmc,id=spicechannel0,name=vdagent",
           "-device", "virtserialport,chardev=spicechannel0,name=com.redhat.spice.0">>
    ELSE <<>>

AudioBackend(sdl) == IF sdl THEN "sdl" ELSE "coreaudio"

AudioConfig(cfg, sdl) ==
    IF cfg.enable_microphone
    THEN AudioBackend(sdl) \o ",id=snd0,out.frequency=48000,out.channels=2,out.format=s16"
                          \o ",in.frequency=48000,in.channels=1,in.format=s16"
    ELSE AudioBackend(sdl) \o ",id=snd0,out.frequency=48000,out.channels=2,out.format=s16"

AudioArgs(cfg, sdl) ==
    <<"-audiodev", AudioConfig(cfg, sdl), "-device", "virtio-sound-pci,audiodev=snd0">>

NetworkArgs(cfg) ==
    IF cfg.network_mode = "vmnet-shared"
    THEN <<"-netdev", "vmnet-shared,id=net0", "-device", "virtio-net-pci,netdev=net0">>
    ELSE IF cfg.network_mode = "bridge-existing"
    THEN <<"-netdev", "bridge,id=net0,br=" \o cfg.bridge_name,
           "-device", "virtio-net-pci,netdev=net0">>
    ELSE <<"-nic", "vmnet-bridged,ifname=en0">>

QemuCommand(cfg, sdl) ==
    BaseArgs(cfg) \o WebcamArgs(cfg) \o SharedFolderArgs(cfg) \o GuestAgentArgs(cfg)
        \o AudioArgs(cfg, sdl) \o NetworkArgs(cfg)

\* the guard at the top of run_launcher
LaunchCancelled(c) ==
    c = None \/ c[1].disk_path = "" \/ c[1].qemu_executable = ""

(***************************************************************************)
(* The setup dialog.                                                       *)
(***************************************************************************)
\* net_modes of run_setup_ui: display text -> value
NetModeDisplays == {"Shared (vmnet)", "User (NAT)", "Bridged (Existing)"}

net_modes(display) ==
    IF display = "Shared (vmnet)" THEN "vmnet-shared"
    ELSE IF display = "User (NAT)" THEN "user"
    ELSE "bridge-existing"

\* the loop that preselects the combobox entry matching net_mode_var
InitialCombo(network_mode) ==
    IF \E d \in NetModeDisplays : net_modes(d) = network_mode
    THEN CHOOSE d \in NetModeDisplays : net_modes(d) = network_mode
    ELSE ""

\* network_mode of cfg = existing_config or get_smart_defaults()
SetupNetworkMode(existing) == IF existing = None THEN "user" ELSE existing[1].network_mode

\* What the user may have typed or ticked when "Save and Launch" is clicked.
FormArch == {"aarch64"}
FormQemu == {"", "/bin/qemu", "/bin/missing"}
FormDisk == {"", "/vm/disk.vmdk", "/vm/missing.vmdk"}
FormFirmware == {"", " ", "/fw/code.fd"}
FormSharedDir == {"", "/no/such/dir"}
FormMountTag == {"", "host_share"}
FormBridge == {"", "br0"}
FormWebcam == {FALSE}
FormGuestAgent == {FALSE}
FormMicrophone == {FALSE}

FormValues ==
    [arch : FormArch, qemu_executable : FormQemu, disk_path : FormDisk,
     firmware_path : FormFirmware, shared_dir_path : FormSharedDir,
     mount_tag : FormMountTag, enable_webcam : FormWebcam,
     bridge_name : FormBridge, enable_guest_agent : FormGuestAgent,
     enable_microphone : FormMicrophone]

\* the read-only combobox: the preselected entry, or any entry the user picks
ComboChoices == NetModeDisplays \cup {net_mode_combo}

\* a check that forgets the firmware path
RequiredGiven_Mut(values) == values.qemu_executable # "" /\ values.disk_path # ""

\* all(values[k] for k in ['qemu_executable', 'disk_path', 'firmware_path'])
RequiredGiven(values) ==
    values.qemu_executable # "" /\ values.disk_path # "" /\ values.firmware_path # ""

\* the values dict of on_save
FormDict(form, display) ==
    [arch |-> form.arch, qemu_executable |-> form.qemu_executable,
     disk_path |-> form.disk_path, firmware_path |-> form.firmware_path,
     shared_dir_path |-> form.shared_dir_path, mount_tag |-> form.mount_tag,
     enable_webcam |-> form.enable_webcam, network_mode |-> net_modes(display),
     bridge_name |-> form.bridge_name, enable_guest_agent |-> form.enable_guest_agent,
     enable_microphone |-> form.enable_microphone]

\* "" when on_save goes on to save_config, else the reason it returns with
SaveRefusal(form, display, run) ==
    IF display = "" THEN "KeyError"
    ELSE IF ~RequiredGiven(FormDict(form, display))
    THEN "QEMU, Disk, and Firmware paths must be specified."
    ELSE IF ~validate_qemu_executable(form.qemu_executable, run).ok
    THEN "Invalid QEMU executable. " \o validate_qemu_executable(form.qemu_executable, run).msg
    ELSE ""

(***************************************************************************)
(* Actions.                                                                *)
(***************************************************************************)
\* the __main__ block
Main ==
    /\ pc = "main"
    /\ LET cfg == load_config(configFile) IN
       IF ~setupComplete \/ cfg = None \/ argvConfig
       THEN /\ pc' = "setup_ui"
            /\ net_mode_combo' = InitialCombo(SetupNetworkMode(cfg))
            /\ UNCHANGED <<config, launchedFrom>>
       ELSE /\ pc' = "run_launcher"
            /\ config' = cfg
            /\ launchedFrom' = "main"
            /\ UNCHANGED net_mode_combo
    /\ UNCHANGED <<configFile, setupComplete, argvConfig, qemu_command, audioRun,
                   sdl_supported, proc, popenCalls, moveCalls, placement, launchErrors,
                   lastError, failedSaves, exitCode>>

\* the "Save and Launch" button
OnSave ==
    /\ pc = "setup_ui"
    /\ \E form \in FormValues, display \in ComboChoices, run \in VersionRuns :
         LET refusal == SaveRefusal(form, display, run) IN
         IF refusal # ""
         THEN /\ failedSaves < MaxFailedSaves
              /\ failedSaves' = failedSaves + 1
              /\ lastError' = refusal
              /\ UNCHANGED <<configFile, setupComplete, pc, config, launchedFrom,
                             net_mode_combo>>
         ELSE /\ configFile' = save_config(FormDict(form, display))
              /\ setupComplete' = TRUE
              /\ config' = load_config(configFile')
              /\ pc' = "run_launcher"
              /\ launchedFrom' = "on_save"
              /\ net_mode_combo' = display
              /\ UNCHANGED <<failedSaves, lastError>>
    /\ UNCHANGED <<argvConfig, qemu_command, audioRun, sdl_supported, proc, popenCalls,
                   moveCalls, placement, launchErrors, exitCode>>

\* the "Cancel" button and the window's close box
Cancel ==
    /\ pc = "setup_ui"
    /\ pc' = "exited"
    /\ exitCode' = 0
    /\ UNCHANGED <<configFile, setupComplete, argvConfig, launchedFrom, net_mode_combo,
                   config, qemu_command, audioRun, sdl_supported, proc, popenCalls,
                   moveCalls, placement, launchErrors, lastError, failedSaves>>

\* run_launcher up to the Popen call: the guard, the audio probe, the command
RunLauncher ==
    /\ pc = "run_launcher"
    /\ IF LaunchCancelled(config)
       THEN /\ pc' = "exited"
            /\ exitCode' = 0
            /\ UNCHANGED <<qemu_command, audioRun, sdl_supported>>
       ELSE \E run \in AudioRuns(config[1].qemu_executable) :
              /\ audioRun' = run
              /\ sdl_supported' = check_sdl_support(run)
              /\ qemu_command' = QemuCommand(config[1], sdl_supported')
              /\ pc' = "popen"
              /\ UNCHANGED exitCode
    /\ UNCHANGED <<configFile, setupComplete, argvConfig, launchedFrom, net_mode_combo,
                   config, proc, popenCalls, moveCalls, placement, launchErrors,
                   lastError, failedSaves>>

\* an except branch that exits as a success
LaunchErrorExit_Mut == 1 - 1

\* exit status of the except branch of run_launcher
LaunchErrorExit == 1

\* subprocess.Popen and proc.poll()
Popen ==
    /\ pc = "popen"
    /\ popenCalls' = popenCalls + 1
    /\ \E run \in PopenRuns(config[1].qemu_executable) :
         IF run = "raises"
         THEN /\ launchErrors' = launchErrors + 1
              /\ exitCode' = LaunchErrorExit
              /\ pc' = "exited"
              /\ UNCHANGED proc
         ELSE /\ proc' \in {"running", "ended"}
              /\ pc' = "post_spawn"
              /\ UNCHANGED <<launchErrors, exitCode>>
    /\ UNCHANGED <<configFile, setupComplete, argvConfig, launchedFrom, net_mode_combo,
                   config, qemu_command, audioRun, sdl_supported, moveCalls, placement,
                   lastError, failedSaves>>

\* the settle delay, the display count, the window move and sys.exit
PostSpawn ==
    /\ pc = "post_spawn"
    /\ \E query \in ScreenQueries, run \in MoveRuns :
         LET moving == proc = "running" /\ get_screen_count(query) > 1
             raised == moving /\ move_qemu_to_screen(query, run)
         IN /\ moveCalls' = IF moving THEN moveCalls + 1 ELSE moveCalls
            /\ placement' = IF ~moving THEN "none"
                             ELSE IF run = "moved" THEN "moved" ELSE "failed"
            /\ launchErrors' = IF raised THEN launchErrors + 1 ELSE launchErrors
            /\ exitCode' = IF raised THEN LaunchErrorExit ELSE 0
    /\ pc' = "exited"
    /\ UNCHANGED <<configFile, setupComplete, argvConfig, launchedFrom, net_mode_combo,
                   config, qemu_command, audioRun, sdl_supported, proc, popenCalls,
                   lastError, failedSaves>>

(***************************************************************************)
(* Initial states: any persisted record, marker and command line.          *)
(***************************************************************************)
\* records of the kind save_config writes, with any subset of required fields empty
StoredRecords ==
    [arch : {"aarch64"}, qemu_executable : {"", "/bin/qemu"},
     disk_path : {"", "/vm/disk.vmdk"}, firmware_path : {"", "/fw/code.fd"},
     shared_dir_path : {""}, mount_tag : {"host_share"}, enable_webcam : {"False"},
     network_mode : {"user", "bridge-existing"}, bridge_name : {"br0"},
     enable_guest_agent : {"False"}, enable_microphone : {"False"}]

Restrict(f, S) == [k \in S |-> f[k]]

\* records written by hand or by an older version: keys missing, unknown mode
DroppedKeys == {{"bridge_name"}, {"firmware_path"}, BoolKeys \cup {"shared_dir_path", "mount_tag"}}

HandWrittenRecords ==
    {Restrict(r, Keys \ d) : r \in {s \in StoredRecords : s.qemu_executable # ""
                                                           /\ s.disk_path # ""},
                              d \in DroppedKeys}
    \cup {[r EXCEPT !.network_mode = "user-nat"] :
             r \in {s \in StoredRecords : RequiredGiven(s) /\ s.network_mode = "user"}}

InitialFiles == {None} \cup {Some(r) : r \in StoredRecords \cup HandWrittenRecords}

InitCommon ==
    /\ pc = "main"
    /\ launchedFrom = "none"
    /\ net_mode_combo = ""
    /\ config = None
    /\ qemu_command = <<>>
    /\ audioRun = "none"
    /\ sdl_supported = FALSE
    /\ proc = "none"
    /\ popenCalls = 0
    /\ moveCalls = 0
    /\ placement = "none"
    /\ launchErrors = 0
    /\ lastError = ""
    /\ failedSaves = 0
    /\ exitCode = -1

Init ==
    /\ configFile \in InitialFiles
    /\ setupComplete \in BOOLEAN
    /\ argvConfig \in BOOLEAN
    /\ InitCommon

Next == Main \/ OnSave \/ Cancel \/ RunLauncher \/ Popen \/ PostSpawn

Spec == Init /\ [][Next]_vars

(***************************************************************************)
(* The launcher alone, on an ordinary restart, over every combination of   *)
(* the optional fields of the persisted record.                            *)
(***************************************************************************)
SynthRecords ==
    [arch : {"aarch64", "x86_64"}, qemu_executable : {"/bin/qemu"},
     disk_path : {"/vm/disk.vmdk"}, firmware_path : {"/fw/code.fd"},
     shared_dir_path : {"", "~/share"}, mount_tag : {"", "host_share"},
     enable_webcam : {"True", "False"},
     network_mode : {"user", "vmnet-shared", "bridge-existing", "user-nat"},
     bridge_name : {"", "br0"}, enable_guest_agent : {"True", "False"},
     enable_microphone : {"True", "False"}]

SynthFiles ==
    {Some(r) : r \in SynthRecords}
    \cup {Some(Restrict(r, Keys \ d)) :
             r \in {s \in SynthRecords : s.arch = "aarch64" /\ s.enable_webcam = "False"
                                           /\ s.enable_guest_agent = "False"},
             d \in {{"bridge_name"}, {"mount_tag"}, {"shared_dir_path"}, {"network_mode"}}}

InitSynth ==
    /\ configFile \in SynthFiles
    /\ setupComplete = TRUE
    /\ argvConfig = FALSE
    /\ InitCommon

NextSynth == Main \/ RunLauncher \/ Popen \/ PostSpawn

SpecSynth == InitSynth /\ [][NextSynth]_vars

(***************************************************************************)
(* Properties.                                                             *)
(***************************************************************************)
Synthesized == qemu_command # <<>>

Has(cmd, tok) == \E i \in DOMAIN cmd : cmd[i] = tok

Count(cmd, tok) == Cardinality({i \in DOMAIN cmd : cmd[i] = tok})

\* the tokens of cmd that follow the last occurrence of tok
TokensAfter(cmd, tok) ==
    LET i == CHOOSE j \in DOMAIN cmd :
                 cmd[j] = tok /\ \A k \in DOMAIN cmd : cmd[k] = tok => k <= j
    IN SubSeq(cmd, i + 1, Len(cmd))

\* the tokens after the audio block: the network block
NetworkBlock(cmd) == TokensAfter(cmd, "virtio-sound-pci,audiodev=snd0")

\* C1: a save action reaches the launcher only with a candidate whose three
\* required paths are non-empty, whose disk and firmware images exist as files,
\* whose shared directory (if set) exists as a directory and whose executable
\* passed the probe (so exists); every other candidate is sent back to setup.
C1_SaveOnlyIfAllChecksPass ==
    launchedFrom = "on_save" =>
        LET c == configFile[1] IN
        /\ c.qemu_executable # "" /\ c.disk_path # "" /\ c.firmware_path # ""
        /\ ExpandUser(c.disk_path) \in ExistingFiles
        /\ ExpandUser(c.firmware_path) \in ExistingFiles
        /\ c.shared_dir_path # "" => ExpandUser(c.shared_dir_path) \in ExistingDirs
        /\ c.qemu_executable \in ExistingFiles

\* C2: at process start the setup dialog is entered if the marker is missing, the
\* loaded configuration is absent or has an empty required path, or --config is
\* given; only otherwise does the launcher run directly.
C2_InitialRouting ==
    LET loaded == load_config(configFile)
        incomplete == \/ loaded = None
                      \/ loaded[1].qemu_executable = ""
                      \/ loaded[1].disk_path = ""
                      \/ loaded[1].firmware_path = ""
        needsSetup == ~setupComplete \/ incomplete \/ argvConfig
    IN /\ launchedFrom = "main" => ~needsSetup
       /\ (pc = "setup_ui" /\ failedSaves = 0) => needsSetup

\* C3: whenever the hypervisor process is spawned, the executable, disk and
\* firmware paths of the configuration used are all non-empty.
C3_SpawnHasRequiredPaths ==
    popenCalls > 0 =>
        /\ config[1].qemu_executable # ""
        /\ config[1].disk_path # ""
        /\ config[1].firmware_path # ""

\* C4: the command contains the shared-folder block (-fsdev plus the virtio-9p
\* device tagged with the mount tag) iff both the shared directory and the mount
\* tag are non-empty.
C4_SharedFolderIffBoth ==
    Synthesized =>
        LET c == config[1]
            both == c.shared_dir_path # "" /\ c.mount_tag # ""
        IN /\ Has(qemu_command, "-fsdev") <=> both
           /\ Has(qemu_command, "virtio-9p-pci,fsdev=fsdev0,mount_tag=" \o c.mount_tag) <=> both

\* C5: a spawn error is terminal and shown once: the process exits non-zero, there
\* is one spawn attempt and no window placement, and nothing happens after exit.
C5_SpawnErrorTerminal ==
    /\ launchErrors > 0 =>
          /\ pc = "exited" /\ exitCode # 0
          /\ launchErrors = 1 /\ popenCalls = 1
          /\ moveCalls = 0 /\ proc = "none"
    /\ pc = "exited" => ~ENABLED Next

C5_Witness == pc = "exited" /\ launchErrors = 1 /\ popenCalls = 1

\* C6: once the hypervisor process has been spawned, the run ends with exit
\* status 0 whatever the placement step does; placement is tried at most once and
\* never shows a launch error.
C6_PlacementNeverFails ==
    proc # "none" =>
        /\ pc \in {"post_spawn", "exited"}
        /\ pc = "exited" => exitCode = 0
        /\ launchErrors = 0
        /\ moveCalls <= 1
        /\ placement # "none" => moveCalls = 1

C6_Witness == pc = "exited" /\ proc = "running" /\ placement = "failed" /\ exitCode = 0

\* QEMU's user-mode (NAT) network interface
UserNatBlocks ==
    {<<"-nic", "user">>,
     <<"-netdev", "user,id=net0", "-device", "virtio-net-pci,netdev=net0">>}

\* C7: the command has exactly one network block, chosen by the network mode:
\* the shared vmnet device, the bridge device naming the bridge, or, for any other
\* mode, the NAT-style user interface; no other variant's tokens appear.
C7_OneNetworkBlockByMode ==
    Synthesized =>
        LET c == config[1]
            net == NetworkBlock(qemu_command)
        IN /\ Count(qemu_command, "-netdev") + Count(qemu_command, "-nic") = 1
           /\ c.network_mode = "vmnet-shared" =>
                 net = <<"-netdev", "vmnet-shared,id=net0",
                         "-device", "virtio-net-pci,netdev=net0">>
           /\ c.network_mode = "bridge-existing" /\ c.bridge_name = "br0" =>
                 net = <<"-netdev", "bridge,id=net0,br=br0",
                         "-device", "virtio-net-pci,netdev=net0">>
           /\ c.network_mode \notin {"vmnet-shared", "bridge-existing"} =>
                 net \in UserNatBlocks

SdlAudio == {"sdl,id=snd0,out.frequency=48000,out.channels=2,out.format=s16",
             "sdl,id=snd0,out.frequency=48000,out.channels=2,out.format=s16,in.frequency=48000,in.channels=1,in.format=s16"}
CoreAudio == {"coreaudio,id=snd0,out.frequency=48000,out.channels=2,out.format=s16",
              "coreaudio,id=snd0,out.frequency=48000,out.channels=2,out.format=s16,in.frequency=48000,in.channels=1,in.format=s16"}
WithInput == {"sdl,id=snd0,out.frequency=48000,out.channels=2,out.format=s16,in.frequency=48000,in.channels=1,in.format=s16",
              "coreaudio,id=snd0,out.frequency=48000,out.channels=2,out.format=s16,in.frequency=48000,in.channels=1,in.format=s16"}

C9_EmptyBridgeFallsBack ==
    (Synthesized /\ launchedFrom = "on_save"
       /\ config[1].network_mode = "bridge-existing" /\ configFile[1].bridge_name = "") =>
        /\ Has(qemu_command, "bridge,id=net0,br=bridge100")
        /\ ~Has(qemu_command, "bridge,id=net0,br=")

\* C10: a save whose candidate fails validation returns to the dialog with a
\* reason, spawns nothing and leaves the persisted record and the marker as they
\* were, and another save stays possible; the record changes only on a save whose
\* candidate has all required paths and an existing executable.
C10_FailedSaveHarmless ==
    /\ [](pc = "setup_ui" => ENABLED OnSave /\ popenCalls = 0 /\ exitCode = -1)
    /\ [][pc = "setup_ui" =>
            \/ /\ configFile' = configFile /\ setupComplete' = setupComplete
               /\ pc' \in {"setup_ui", "exited"}
               /\ popenCalls' = 0
               /\ failedSaves' > failedSaves => pc' = "setup_ui" /\ lastError' # ""
            \/ /\ pc' = "run_launcher" /\ launchedFrom' = "on_save"
               /\ setupComplete' /\ configFile' # None
               /\ configFile'[1].qemu_executable \in ExistingFiles
               /\ configFile'[1].disk_path # ""
               /\ configFile'[1].firmware_path # ""
               /\ failedSaves' = failedSaves]_vars

C10_Witness ==
    /\ pc = "setup_ui" /\ failedSaves = 2
    /\ lastError = "Invalid QEMU executable. An unexpected validation error occurred: timeout"

====
